---- MODULE Spec2Model ----
(***************************************************************************)
(* The MITRE ATT&CK terminal browsers of this repository as one state      *)
(* machine: super.py (actors and tools), cti-ta.py (actors only) and       *)
(* cti-tech.py (tools only).  A step of the machine is everything main     *)
(* does between two blocking reads of user input.                          *)
(*                                                                         *)
(* A Python str is a tuple of one-character strings, so that lower(),      *)
(* capitalize(), "in", join, int() and str() are computed and not assumed. *)
(* A Python dict is a function from its keys; dict.get is Get.             *)
(***************************************************************************)
EXTENDS Integers, Sequences, FiniteSets, TLC

-----------------------------------------------------------------------------
(* Bounds of the model.                                                    *)

\* descriptions are concatenations of at most MaxFrags fragments
MaxFrags == 2
\* an actor listing holds at most MaxActors intrusion sets
MaxActors == 3
\* an actor uses at most MaxTech techniques
MaxTech == 11
\* cti-tech.py re-enters main at most MaxDepth times
MaxDepth == 3

\* relationships per anchor in a generated bundle
MaxEdges == 3

-----------------------------------------------------------------------------
(* Python values.                                                          *)

\* None where a dict is expected (load_attack_stix_content on a failed fetch)
None == [None |-> TRUE]

\* None where a str is expected (get_actor_id without a match)
NoneStr == <<"None">>

\* dict.get(key, default)
Get(d, key, default) == IF key \in DOMAIN d THEN d[key] ELSE default

\* truth value of a dict or None: None and {} are false
Truthy(d) == d # None /\ DOMAIN d # {}

\* the printable ASCII characters in code point order, 32 .. 126 (the grave
\* accent, 96, is not writable as a string here and is never used)
Ascii ==
  <<" ","!","\"","#","$","%","&","'","(",")","*","+",",","-",".","/",
    "0","1","2","3","4","5","6","7","8","9",":",";","<","=",">","?",
    "@","A","B","C","D","E","F","G","H","I","J","K","L","M","N","O",
    "P","Q","R","S","T","U","V","W","X","Y","Z","[","\\","]","^","_",
    "(grave)","a","b","c","d","e","f","g","h","i","j","k","l","m","n","o",
    "p","q","r","s","t","u","v","w","x","y","z","{","|","}","~">>

\* ord(c)
Ord(c) == IF c = "\n" THEN 10 ELSE 31 + CHOOSE i \in 1..Len(Ascii) : Ascii[i] = c

\* chr(n), 32 <= n <= 126
Chr(n) == Ascii[n - 31]

IsUpper(c) == Ord(c) >= 65 /\ Ord(c) <= 90

IsLower(c) == Ord(c) >= 97 /\ Ord(c) <= 122

IsDigit(c) == Ord(c) >= 48 /\ Ord(c) <= 57

\* str.lower()
lower(s) == [i \in 1..Len(s) |-> IF IsUpper(s[i]) THEN Chr(Ord(s[i]) + 32) ELSE s[i]]

\* str.upper()
upper(s) == [i \in 1..Len(s) |-> IF IsLower(s[i]) THEN Chr(Ord(s[i]) - 32) ELSE s[i]]

\* str.capitalize(): first character upper case, the rest lower case
capitalize(s) == IF s = <<>> THEN s ELSE upper(<<s[1]>>) \o lower(Tail(s))

\* sub in s
Contains(sub, s) ==
  \E i \in 0..(Len(s) - Len(sub)) : SubSeq(s, i + 1, i + Len(sub)) = sub

\* a < b on str: lexicographic on code points
RECURSIVE StrLess(_, _)
StrLess(a, b) ==
  IF b = <<>> THEN FALSE
  ELSE IF a = <<>> THEN TRUE
  ELSE IF a[1] # b[1] THEN Ord(a[1]) < Ord(b[1])
  ELSE StrLess(Tail(a), Tail(b))

\* sep.join(parts)
RECURSIVE Join(_, _)
Join(sep, parts) ==
  IF parts = <<>> THEN <<>>
  ELSE IF Len(parts) = 1 THEN parts[1]
  ELSE parts[1] \o sep \o Join(sep, Tail(parts))

\* str(n) for n >= 0
RECURSIVE IntToStr(_)
IntToStr(n) ==
  IF n < 10 THEN <<Chr(48 + n)>> ELSE IntToStr(n \div 10) \o <<Chr(48 + (n % 10))>>

\* concatenation of a sequence of strings
RECURSIVE Concat(_)
Concat(parts) == IF parts = <<>> THEN <<>> ELSE parts[1] \o Concat(Tail(parts))

\* all sequences over S of length at most n
SeqsUpTo(S, n) == UNION {[1..k -> S] : k \in 0..n}

-----------------------------------------------------------------------------
(* Classifier: extract_geo_info, extract_activity_type,                    *)
(* extract_target_sector.                                                  *)

geo_keywords ==
  << <<"C","h","i","n","a">>, <<"R","u","s","s","i","a">>, <<"I","r","a","n">>, <<"N","o","r","t","h"," ","K","o","r","e","a">>,
     <<"U","S","A">>, <<"V","i","e","t","n","a","m">>, <<"I","n","d","i","a">>, <<"E","u","r","o","p","e">> >>

activity_keywords ==
  << <<"e","s","p","i","o","n","a","g","e">>, <<"f","i","n","a","n","c","i","a","l">>, <<"t","h","e","f","t">>, <<"s","a","b","o","t","a","g","e">>,
     <<"r","a","n","s","o","m","w","a","r","e">>, <<"m","a","l","w","a","r","e">> >>

sector_keywords ==
  << <<"g","o","v","e","r","n","m","e","n","t">>, <<"f","i","n","a","n","c","i","a","l">>, <<"h","e","a","l","t","h","c","a","r","e">>, <<"t","e","c","h","n","o","l","o","g","y">>,
     <<"e","n","e","r","g","y">>, <<"m","i","l","i","t","a","r","y">> >>

Unknown == <<"U","n","k","n","o","w","n">>

Other == <<"O","t","h","e","r">>

\* the test of the for loops: keyword.lower() in description.lower()
KeywordIn(keyword, description) == Contains(lower(keyword), lower(description))

\* FirstKeyword, were the loop to go on to the last keyword that matches
RECURSIVE LastKeyword(_, _, _)
LastKeyword(keywords, description, i) ==
  IF i > Len(keywords) THEN 0
  ELSE LET later == LastKeyword(keywords, description, i + 1)
       IN  IF later # 0 THEN later
           ELSE IF KeywordIn(keywords[i], description) THEN i
           ELSE 0

\* for keyword in keywords: if keyword.lower() in description.lower(): return ...
\* the index of the keyword the loop returns at, 0 when it falls through
RECURSIVE FirstKeyword(_, _, _)
FirstKeyword(keywords, description, i) ==
  IF i > Len(keywords) THEN 0
  ELSE IF KeywordIn(keywords[i], description) THEN i
  ELSE FirstKeyword(keywords, description, i + 1)

\* extract_geo_info, were it to fall back to "Other" like the other two
extract_geo_info_other(description) ==
  LET i == FirstKeyword(geo_keywords, description, 1)
  IN  IF i = 0 THEN Other ELSE geo_keywords[i]

extract_geo_info(description) ==
  LET i == FirstKeyword(geo_keywords, description, 1)
  IN  IF i = 0 THEN Unknown ELSE geo_keywords[i]

extract_activity_type(description) ==
  LET i == FirstKeyword(activity_keywords, description, 1)
  IN  IF i = 0 THEN Other ELSE capitalize(activity_keywords[i])

extract_target_sector(description) ==
  LET i == FirstKeyword(sector_keywords, description, 1)
  IN  IF i = 0 THEN Other ELSE capitalize(sector_keywords[i])

-----------------------------------------------------------------------------
(* Bundle queries.                                                         *)

\* attack_stix_content.get('objects', [])
Objects(attack_stix_content) == Get(attack_stix_content, "objects", <<>>)

\* InsertByKey, were the item to go before the items of an equal key
RECURSIVE InsertByKeyBeforeEqual(_, _, _)
InsertByKeyBeforeEqual(item, sorted, key) ==
  IF sorted = <<>> THEN <<item>>
  ELSE IF ~StrLess(sorted[1][key], item[key]) THEN <<item>> \o sorted
  ELSE <<sorted[1]>> \o InsertByKeyBeforeEqual(item, Tail(sorted), key)

\* sorted(items, key=lambda x: x[key]): stable insertion by the str key
RECURSIVE InsertByKey(_, _, _)
InsertByKey(item, sorted, key) ==
  IF sorted = <<>> THEN <<item>>
  ELSE IF StrLess(item[key], sorted[1][key]) THEN <<item>> \o sorted
  ELSE <<sorted[1]>> \o InsertByKey(item, Tail(sorted), key)

RECURSIVE SortedByKey(_, _)
SortedByKey(items, key) ==
  IF items = <<>> THEN <<>>
  ELSE InsertByKey(items[Len(items)], SortedByKey(SubSeq(items, 1, Len(items) - 1), key), key)

\* the summary get_all_threat_actors appends for one intrusion-set object
ActorSummary(obj) ==
  LET description == Get(obj, "description", <<>>)
  IN  [name |-> obj.name,
       geo_info |-> extract_geo_info(description),
       activity_type |-> extract_activity_type(description),
       target_sector |-> extract_target_sector(description)]

get_all_threat_actors(attack_stix_content) ==
  LET objs == Objects(attack_stix_content)
      sets == SelectSeq(objs, LAMBDA obj : Get(obj, "type", "") = "intrusion-set")
  IN  SortedByKey([i \in 1..Len(sets) |-> ActorSummary(sets[i])], "name")

\* index of the first object of the given type and id, 0 when there is none:
\* next((item for item in objects if item.get('type') == type and
\*       item.get('id') == id), None)
RECURSIVE FindObject(_, _, _, _)
FindObject(objs, type, id, k) ==
  IF k > Len(objs) THEN 0
  ELSE IF Get(objs[k], "type", "") = type /\ Get(objs[k], "id", NoneStr) = id THEN k
  ELSE FindObject(objs, type, id, k + 1)

RECURSIVE ActorIdFrom(_, _, _)
ActorIdFrom(objs, actor_name, k) ==
  IF k > Len(objs) THEN NoneStr
  ELSE IF /\ Get(objs[k], "type", "") = "intrusion-set"
          /\ lower(objs[k].name) = lower(actor_name)
       THEN Get(objs[k], "id", NoneStr)
  ELSE ActorIdFrom(objs, actor_name, k + 1)

get_actor_id(attack_stix_content, actor_name) ==
  ActorIdFrom(Objects(attack_stix_content), actor_name, 1)

\* ', '.join(tech_obj.get('x_mitre_platforms', ['N/A']))
PlatformsOf(tech_obj) ==
  Join(<<","," ">>, Get(tech_obj, "x_mitre_platforms", << <<"N","/","A">> >>))

\* KillChainOf, were a technique without phases to get "N/A" as for platforms
KillChainOfDefaulting(tech_obj) ==
  IF "kill_chain_phases" \in DOMAIN tech_obj
    THEN Join(<<","," ">>, [i \in 1..Len(tech_obj.kill_chain_phases) |->
                         tech_obj.kill_chain_phases[i].phase_name])
  ELSE <<"N","/","A">>

\* ', '.join(phase['phase_name'] for phase in tech_obj.get('kill_chain_phases', []))
KillChainOf(tech_obj) ==
  LET phases == Get(tech_obj, "kill_chain_phases", <<>>)
  IN  Join(<<","," ">>, [i \in 1..Len(phases) |-> phases[i].phase_name])

\* tech_obj after tech_obj['platforms'] = ...; tech_obj['kill_chain_phase'] = ...
Enriched(tech_obj) ==
  [f \in DOMAIN tech_obj \cup {"platforms", "kill_chain_phase"} |->
     IF f = "platforms" THEN PlatformsOf(tech_obj)
     ELSE IF f = "kill_chain_phase" THEN KillChainOf(tech_obj)
     ELSE tech_obj[f]]

\* the test of the relationship scan of get_techniques_for_actor and
\* get_techniques_for_tool
IsTechniqueEdge(obj, source_id) ==
  /\ Get(obj, "type", "") = "relationship"
  /\ Get(obj, "source_ref", NoneStr) = source_id
  /\ Contains(<<"a","t","t","a","c","k","-","p","a","t","t","e","r","n">>, obj.target_ref)

\* ScanActorEdges, were the scan to end at a relationship it cannot resolve
RECURSIVE ScanActorEdgesStopping(_, _, _, _)
ScanActorEdgesStopping(objs, actor_id, i, techniques) ==
  IF i > Len(objs) THEN [objects |-> objs, techniques |-> techniques]
  ELSE IF IsTechniqueEdge(objs[i], actor_id)
       THEN LET k == FindObject(objs, "attack-pattern", objs[i].target_ref, 1)
            IN  IF k = 0 THEN [objects |-> objs, techniques |-> techniques]
                ELSE ScanActorEdgesStopping([objs EXCEPT ![k] = Enriched(objs[k])],
                       actor_id, i + 1, Append(techniques, Enriched(objs[k])))
  ELSE ScanActorEdgesStopping(objs, actor_id, i + 1, techniques)

\* the scan of get_techniques_for_actor from object i on: the stored objects
\* (the resolved techniques are written to in place) and the list built
RECURSIVE ScanActorEdges(_, _, _, _)
ScanActorEdges(objs, actor_id, i, techniques) ==
  IF i > Len(objs) THEN [objects |-> objs, techniques |-> techniques]
  ELSE IF IsTechniqueEdge(objs[i], actor_id)
       THEN LET k == FindObject(objs, "attack-pattern", objs[i].target_ref, 1)
            IN  IF k = 0 THEN ScanActorEdges(objs, actor_id, i + 1, techniques)
                ELSE ScanActorEdges([objs EXCEPT ![k] = Enriched(objs[k])], actor_id,
                                    i + 1, Append(techniques, Enriched(objs[k])))
  ELSE ScanActorEdges(objs, actor_id, i + 1, techniques)

\* [objects: the stored objects afterwards, techniques: the list returned]
get_techniques_for_actor(attack_stix_content, actor_id) ==
  ScanActorEdges(Objects(attack_stix_content), actor_id, 1, <<>>)

\* text.replace('\n', ' ')
ReplaceNewlines(text) == [i \in 1..Len(text) |-> IF text[i] = "\n" THEN " " ELSE text[i]]

\* obj.get('description', 'No description available').replace('\n', ' ')
\*   + f" (ID: {obj.get('id')})"
RelatedDescription(obj) ==
  ReplaceNewlines(Get(obj, "description", <<"N","o"," ","d","e","s","c","r","i","p","t","i","o","n"," ","a","v","a","i","l","a","b","l","e">>))
    \o <<" ","(","I","D",":"," ">> \o Get(obj, "id", NoneStr) \o <<")">>

ToolTechnique(tech_obj) ==
  [kill_chain |-> KillChainOf(tech_obj),
   name |-> tech_obj.name,
   platform |-> PlatformsOf(tech_obj),
   description |-> RelatedDescription(tech_obj)]

RECURSIVE ScanToolEdges(_, _, _, _)
ScanToolEdges(objs, tool_id, i, techniques) ==
  IF i > Len(objs) THEN techniques
  ELSE IF IsTechniqueEdge(objs[i], tool_id)
       THEN LET k == FindObject(objs, "attack-pattern", objs[i].target_ref, 1)
            IN  IF k = 0 THEN ScanToolEdges(objs, tool_id, i + 1, techniques)
                ELSE ScanToolEdges(objs, tool_id, i + 1,
                                   Append(techniques, ToolTechnique(objs[k])))
  ELSE ScanToolEdges(objs, tool_id, i + 1, techniques)

get_techniques_for_tool(attack_stix_content, tool_id) ==
  SortedByKey(ScanToolEdges(Objects(attack_stix_content), tool_id, 1, <<>>), "kill_chain")

IsActorEdge(obj, tool_id) ==
  /\ Get(obj, "type", "") = "relationship"
  /\ Get(obj, "target_ref", NoneStr) = tool_id
  /\ Contains(<<"i","n","t","r","u","s","i","o","n","-","s","e","t">>, obj.source_ref)

RECURSIVE ScanActorsOfTool(_, _, _, _)
ScanActorsOfTool(objs, tool_id, i, actors) ==
  IF i > Len(objs) THEN actors
  ELSE IF IsActorEdge(objs[i], tool_id)
       THEN LET k == FindObject(objs, "intrusion-set", objs[i].source_ref, 1)
            IN  IF k = 0 THEN ScanActorsOfTool(objs, tool_id, i + 1, actors)
                ELSE ScanActorsOfTool(objs, tool_id, i + 1,
                       Append(actors, [name |-> objs[k].name,
                                       description |-> RelatedDescription(objs[k])]))
  ELSE ScanActorsOfTool(objs, tool_id, i + 1, actors)

get_actors_for_tool(attack_stix_content, tool_id) ==
  ScanActorsOfTool(Objects(attack_stix_content), tool_id, 1, <<>>)

\* tools[obj.get('id')] = {...} on an insertion-ordered dict: a repeated id
\* keeps its first place and takes the last value
RECURSIVE PutTool(_, _)
PutTool(tools, entry) ==
  IF tools = <<>> THEN <<entry>>
  ELSE IF tools[1].id = entry.id THEN <<entry>> \o Tail(tools)
  ELSE <<tools[1]>> \o PutTool(Tail(tools), entry)

RECURSIVE ScanTools(_, _, _)
ScanTools(objs, i, tools) ==
  IF i > Len(objs) THEN tools
  ELSE IF Get(objs[i], "type", "") = "tool"
       THEN ScanTools(objs, i + 1,
              PutTool(tools, [id |-> Get(objs[i], "id", NoneStr),
                              name |-> objs[i].name,
                              description |-> Get(objs[i], "description",
                                                  <<"N","o"," ","d","e","s","c","r","i","p","t","i","o","n"," ","a","v","a","i","l","a","b","l","e">>)]))
  ELSE ScanTools(objs, i + 1, tools)

\* the dict as the sequence of its items, [id, name, description], in key order
load_tools(attack_stix_content) == ScanTools(Objects(attack_stix_content), 1, <<>>)

\* [tool['name'] for tool in tools.values()]
ToolNames(tools) == [i \in 1..Len(tools) |-> tools[i].name]

-----------------------------------------------------------------------------
(* Grouping: display_threat_actors_by_geo / _by_activity / _by_sector.    *)

\* the groups dict, in insertion order: a sequence of [key, actors]
RECURSIVE GroupInto(_, _, _)
GroupInto(groups, actor, key) ==
  IF groups = <<>> THEN << [key |-> actor[key], actors |-> <<actor>>] >>
  ELSE IF groups[1].key = actor[key]
       THEN << [groups[1] EXCEPT !.actors = Append(@, actor)] >> \o Tail(groups)
  ELSE <<groups[1]>> \o GroupInto(Tail(groups), actor, key)

RECURSIVE GroupBy(_, _)
GroupBy(threat_actors, key) ==
  IF threat_actors = <<>> THEN <<>>
  ELSE GroupInto(GroupBy(SubSeq(threat_actors, 1, Len(threat_actors) - 1), key),
                 threat_actors[Len(threat_actors)], key)

\* max(len(actors) for actors in groups.values()), groups not empty
RECURSIVE MaxActorsOf(_)
MaxActorsOf(groups) ==
  IF Len(groups) = 1 THEN Len(groups[1].actors)
  ELSE LET m == MaxActorsOf(Tail(groups))
       IN  IF Len(groups[1].actors) > m THEN Len(groups[1].actors) ELSE m

\* min(6, console.size.width // 15)
NumColumns(width) == IF width \div 15 < 6 THEN width \div 15 ELSE 6

\* math.ceil(a / b), b > 0
Ceil(a, b) == (a + b - 1) \div b

\* f"{index}. {name}"
CellText(index, name) == IntToStr(index) \o <<"."," ">> \o name

\* ScanGroups, were index += 1 to stand after the if, counting blank cells too
RECURSIVE ScanGroupsCountingBlanks(_, _, _, _)
ScanGroupsCountingBlanks(groups, row, g, acc) ==
  IF g > Len(groups) THEN acc
  ELSE IF row < Len(groups[g].actors)
       THEN ScanGroupsCountingBlanks(groups, row, g + 1,
              [actor_list |-> Append(acc.actor_list, groups[g].actors[row + 1].name),
               index |-> acc.index + 1,
               row_data |-> Append(acc.row_data,
                                   CellText(acc.index, groups[g].actors[row + 1].name))])
  ELSE ScanGroupsCountingBlanks(groups, row, g + 1,
         [acc EXCEPT !.row_data = Append(@, <<>>), !.index = @ + 1])

\* one pass of "for key, actors in groups.items()" for the given row (0-based),
\* from group g on; acc = [actor_list, index, row_data]
RECURSIVE ScanGroups(_, _, _, _)
ScanGroups(groups, row, g, acc) ==
  IF g > Len(groups) THEN acc
  ELSE IF row < Len(groups[g].actors)
       THEN ScanGroups(groups, row, g + 1,
              [actor_list |-> Append(acc.actor_list, groups[g].actors[row + 1].name),
               index |-> acc.index + 1,
               row_data |-> Append(acc.row_data,
                                   CellText(acc.index, groups[g].actors[row + 1].name))])
  ELSE ScanGroups(groups, row, g + 1, [acc EXCEPT !.row_data = Append(@, <<>>)])

\* "for row in range(num_rows)" from the given row on; acc = [actor_list, index, rows]
RECURSIVE ScanRows(_, _, _, _)
ScanRows(groups, num_rows, row, acc) ==
  IF row >= num_rows THEN acc
  ELSE LET r == ScanGroups(groups, row, 1,
                  [actor_list |-> acc.actor_list, index |-> acc.index, row_data |-> <<>>])
       IN  ScanRows(groups, num_rows, row + 1,
             [actor_list |-> r.actor_list, index |-> r.index,
              rows |-> Append(acc.rows, r.row_data)])

\* the three display functions, which differ in the key only:
\* [raised: the exception that ends the call, "" when it returns,
\*  actor_list: the list returned, table: the table printed]
DisplayGrouped(threat_actors, key, width) ==
  LET groups == GroupBy(threat_actors, key)
      columns == [g \in 1..Len(groups) |-> groups[g].key]
      nothing == [columns |-> <<>>, rows |-> <<>>]
  IN  IF groups = <<>>
        THEN [raised |-> "ValueError", actor_list |-> <<>>, table |-> nothing]
      ELSE IF NumColumns(width) = 0
        THEN [raised |-> "ZeroDivisionError", actor_list |-> <<>>, table |-> nothing]
      ELSE LET num_rows == Ceil(MaxActorsOf(groups), NumColumns(width))
               r == ScanRows(groups, num_rows, 0,
                             [actor_list |-> <<>>, index |-> 1, rows |-> <<>>])
           IN  [raised |-> "", actor_list |-> r.actor_list,
                table |-> [columns |-> columns, rows |-> r.rows]]

display_threat_actors_by_geo(threat_actors, width) ==
  DisplayGrouped(threat_actors, "geo_info", width)

display_threat_actors_by_activity(threat_actors, width) ==
  DisplayGrouped(threat_actors, "activity_type", width)

display_threat_actors_by_sector(threat_actors, width) ==
  DisplayGrouped(threat_actors, "target_sector", width)

-----------------------------------------------------------------------------
(* Selection and paging.                                                   *)

page_size == 5

\* str.strip() of the blanks int() ignores
RECURSIVE Strip(_)
Strip(s) ==
  IF s = <<>> THEN s
  ELSE IF s[1] = " " THEN Strip(Tail(s))
  ELSE IF s[Len(s)] = " " THEN Strip(SubSeq(s, 1, Len(s) - 1))
  ELSE s

\* the digits of a literal int() accepts: digits, single underscores between them
IsDigits(s) ==
  /\ s # <<>>
  /\ IsDigit(s[1]) /\ IsDigit(s[Len(s)])
  /\ \A i \in 1..Len(s) : IsDigit(s[i]) \/ s[i] = "_"
  /\ \A i \in 1..(Len(s) - 1) : ~(s[i] = "_" /\ s[i + 1] = "_")

RECURSIVE DigitsValue(_, _)
DigitsValue(s, acc) ==
  IF s = <<>> THEN acc
  ELSE IF s[1] = "_" THEN DigitsValue(Tail(s), acc)
  ELSE DigitsValue(Tail(s), 10 * acc + (Ord(s[1]) - 48))

\* int(line): [ok: FALSE when it raises ValueError, value]
ParseInt(line) ==
  LET s == Strip(line)
      signed == s # <<>> /\ s[1] \in {"+", "-"}
      digits == IF signed THEN Tail(s) ELSE s
  IN  IF ~IsDigits(digits) THEN [ok |-> FALSE, value |-> 0]
      ELSE [ok |-> TRUE,
            value |-> IF signed /\ s[1] = "-" THEN 0 - DigitsValue(digits, 0)
                      ELSE DigitsValue(digits, 0)]

\* ParseChoice, were the range check choice >= n - 1
ParseChoiceRejectingLast(line, n) ==
  LET p == ParseInt(line)
  IN  IF ~p.ok \/ p.value - 1 < 0 \/ p.value - 1 >= n - 1
        THEN [ok |-> FALSE, choice |-> 0]
      ELSE [ok |-> TRUE, choice |-> p.value - 1]

\* the try block of the prompts: choice = int(line) - 1, range check against n:
\* [ok: FALSE when ValueError is raised, choice: the 0-based index]
ParseChoice(line, n) ==
  LET p == ParseInt(line)
  IN  IF ~p.ok \/ p.value - 1 < 0 \/ p.value - 1 >= n
        THEN [ok |-> FALSE, choice |-> 0]
      ELSE [ok |-> TRUE, choice |-> p.value - 1]

\* math.ceil(len(techniques) / page_size)
TotalPages(techniques) == Ceil(Len(techniques), page_size)

\* where a slice bound i falls in a list of n items: a negative bound counts
\* from the end, and either is clamped to 0 .. n
SliceIndex(i, n) ==
  IF i < 0 THEN (IF n + i < 0 THEN 0 ELSE n + i)
  ELSE IF i > n THEN n ELSE i

\* Slice, were the end of the slice included
SliceInclusive(items, start_index, end_index) ==
  LET lo == SliceIndex(start_index, Len(items))
      hi == SliceIndex(end_index + 1, Len(items))
  IN  IF lo < hi THEN SubSeq(items, lo + 1, hi) ELSE <<>>

\* techniques[start_index:end_index]
Slice(items, start_index, end_index) ==
  LET lo == SliceIndex(start_index, Len(items))
      hi == SliceIndex(end_index, Len(items))
  IN  IF lo < hi THEN SubSeq(items, lo + 1, hi) ELSE <<>>

\* the rows display_techniques adds for enumerate(techniques, start=start_index)
TechniqueRows(page_techniques, start_index) ==
  [i \in 1..Len(page_techniques) |->
     [no |-> IntToStr(start_index + i - 1),
      name |-> page_techniques[i].name,
      platforms |-> Get(page_techniques[i], "platforms", <<"N","/","A">>),
      kill_chain_phase |-> Get(page_techniques[i], "kill_chain_phase", <<"N","/","A">>)]]

\* the page main shows for current_page
ShowPage(techniques, actor_name, page) ==
  LET start_index == (page - 1) * page_size
      end_index == start_index + page_size
  IN  [kind |-> "techniques",
       actor |-> actor_name,
       total |-> Len(techniques),
       rows |-> TechniqueRows(Slice(techniques, start_index, end_index), start_index + 1)]

-----------------------------------------------------------------------------
(* Bundles the network may return.                                         *)

IntrusionSet(n, name) ==
  [type |-> "intrusion-set", id |-> <<"i","n","t","r","u","s","i","o","n","-","s","e","t","-","-">> \o IntToStr(n), name |-> name]

AttackPattern(n, name) ==
  [type |-> "attack-pattern", id |-> <<"a","t","t","a","c","k","-","p","a","t","t","e","r","n","-","-">> \o IntToStr(n), name |-> name]

Tool(n, name) ==
  [type |-> "tool", id |-> <<"t","o","o","l","-","-">> \o IntToStr(n), name |-> name]

Relationship(source_ref, target_ref) ==
  [type |-> "relationship", source_ref |-> source_ref, target_ref |-> target_ref]

With(obj, field, value) == (field :> value) @@ obj

IsId(n) == <<"i","n","t","r","u","s","i","o","n","-","s","e","t","-","-">> \o IntToStr(n)

ApId(n) == <<"a","t","t","a","c","k","-","p","a","t","t","e","r","n","-","-">> \o IntToStr(n)

ToolId(n) == <<"t","o","o","l","-","-">> \o IntToStr(n)

Phase(name) == [kill_chain_name |-> <<"m","i","t","r","e","-","a","t","t","a","c","k">>, phase_name |-> name]

\* a fetch that raised a RequestException
FetchFailed == [ok |-> FALSE, json |-> <<>>]

Fetched(json) == [ok |-> TRUE, json |-> json]

\* two actors, two techniques, two tools; duplicate, dangling and
\* wrong-typed edges
BundleMain ==
  [objects |-> <<
     With(IntrusionSet(1, <<"L","a","z","a","r","u","s">>), "description",
          <<"N","o","r","t","h"," ","K","o","r","e","a"," ","g","r","o","u","p",".","\n","K","n","o","w","n"," ","f","o","r"," ","f","i","n","a","n","c","i","a","l"," ","t","h","e","f","t">>),
     With(IntrusionSet(2, <<"A","P","T","2","8">>), "description", <<"R","u","s","s","i","a","n"," ","m","i","l","i","t","a","r","y"," ","e","s","p","i","o","n","a","g","e">>),
     With(With(With(AttackPattern(1, <<"P","h","i","s","h","i","n","g">>), "description", <<"*"," ","M","a","i","l","\n","l","i","n","k","s">>),
               "x_mitre_platforms", << <<"W","i","n","d","o","w","s">>, <<"L","i","n","u","x">> >>),
          "kill_chain_phases", << Phase(<<"i","n","i","t","i","a","l","-","a","c","c","e","s","s">>), Phase(<<"e","x","e","c","u","t","i","o","n">>) >>),
     AttackPattern(2, <<"W","i","p","e">>),
     With(Tool(1, <<"M","i","m","i","k","a","t","z">>), "description", <<"D","u","m","p","s"," ","[","c","r","e","d","s","]","\n","(","l","s","a","s","s",")">>),
     Tool(2, <<"P","s","E","x","e","c">>),
     [type |-> "malware", id |-> <<"m","a","l","w","a","r","e","-","-","a","t","t","a","c","k","-","p","a","t","t","e","r","n","-","-","7">>, name |-> <<"O","d","d">>],
     Relationship(IsId(1), ApId(2)),
     Relationship(IsId(1), ApId(9)),
     Relationship(IsId(1), ToolId(1)),
     Relationship(IsId(1), ApId(1)),
     Relationship(IsId(1), <<"m","a","l","w","a","r","e","-","-","a","t","t","a","c","k","-","p","a","t","t","e","r","n","-","-","7">>),
     Relationship(IsId(1), ApId(2)),
     Relationship(IsId(2), ToolId(1)),
     Relationship(IsId(9), ToolId(1)),
     Relationship(ToolId(1), ApId(1)),
     Relationship(ToolId(1), ApId(2)) >>]

\* actor X1 linked by two relationship objects to the techniques T1 and T2
BundleScenario ==
  [objects |-> <<
     [type |-> "intrusion-set", id |-> <<"X","1">>, name |-> <<"A">>],
     [type |-> "attack-pattern", id |-> <<"T","1">>, name |-> <<"O","n","e">>],
     [type |-> "attack-pattern", id |-> <<"T","2">>, name |-> <<"T","w","o">>],
     [type |-> "tool", id |-> <<"S","1">>, name |-> <<"K","i","t">>],
     Relationship(<<"X","1">>, <<"T","1">>),
     Relationship(<<"X","1">>, <<"T","2">>),
     Relationship(<<"S","1">>, <<"T","1">>),
     Relationship(<<"X","1">>, <<"S","1">>) >>]

BundleEmpty == [objects |-> <<>>]

\* the document {}
NoObjects == <<>>

\* two intrusion sets of the same name, each with a technique of its own
BundleTwins ==
  [objects |-> <<
     With(IntrusionSet(1, <<"A","P","T","1">>), "description", <<"R","u","s","s","i","a">>),
     With(IntrusionSet(2, <<"A","P","T","1">>), "description", <<"C","h","i","n","a">>),
     AttackPattern(1, <<"P","h","i","s","h","i","n","g">>),
     AttackPattern(2, <<"W","i","p","e">>),
     Relationship(IsId(1), ApId(1)),
     Relationship(IsId(2), ApId(2)) >>]

\* an intrusion set stored without an id, and one that uses nothing
BundleAnonymous ==
  [objects |-> <<
     [type |-> "intrusion-set", name |-> <<"G","h","o","s","t">>, description |-> <<"I","r","a","n">>],
     With(IntrusionSet(1, <<"A","P","T","1">>), "description", <<"C","h","i","n","a">>),
     AttackPattern(1, <<"P","h","i","s","h","i","n","g">>) >>]

\* a document with other keys than "objects"
BundleWithoutObjects == [type |-> <<"b","u","n","d","l","e">>, id |-> <<"b","u","n","d","l","e","-","-","1">>]

Responses ==
  {Fetched(BundleMain), Fetched(BundleScenario), Fetched(BundleEmpty),
   Fetched(BundleTwins), Fetched(BundleAnonymous), Fetched(BundleWithoutObjects),
   Fetched(NoObjects), FetchFailed}

\* one actor using n distinct techniques, and a tool
PagerBundle(n) ==
  [objects |->
     << With(IntrusionSet(1, <<"A","P","T","1">>), "description", <<"C","h","i","n","a">>), Tool(1, <<"K","i","t">>) >>
     \o [i \in 1..n |-> With(AttackPattern(i, <<"T">> \o IntToStr(i)),
                             "x_mitre_platforms", << <<"L","i","n","u","x">> >>)]
     \o [i \in 1..n |-> Relationship(IsId(1), ApId(i))]
     \o << Relationship(ToolId(1), ApId(1)) >>]

PagerResponses == {Fetched(PagerBundle(n)) : n \in 0..MaxTech}

\* names in an order that is not the sorted one
ActorNames == << <<"Z","e","t","a">>, <<"a","l","p","h","a">>, <<"B","e","t","a">>, <<"D","e","l","t","a">>, <<"c","a","r","o","l">> >>

GroupDescriptions ==
  { <<"C","h","i","n","a"," ","e","s","p","i","o","n","a","g","e">>, <<"r","u","s","s","i","a",":"," ","t","h","e","f","t"," ","f","r","o","m"," ","g","o","v","e","r","n","m","e","n","t">>, <<"e","n","e","r","g","y">>, <<>> }

\* the intrusion sets described by descs, a technique of the first, a tool
ActorBundle(descs) ==
  [objects |->
     [i \in 1..Len(descs) |-> With(IntrusionSet(i, ActorNames[i]), "description", descs[i])]
     \o << AttackPattern(1, <<"T","1">>), Tool(1, <<"K","i","t">>),
           Relationship(IsId(1), ApId(1)), Relationship(ToolId(1), ApId(1)) >>]

GroupResponses ==
  {Fetched(ActorBundle(descs)) : descs \in SeqsUpTo(GroupDescriptions, MaxActors)}

Fragments ==
  { <<"C","h","i","n","a">>, <<"C","h","i">>, <<"n","a"," ">>, <<"R","U","S","S","I","A">>, <<" ","n","o","r","t","h"," ","k","o","r","e","a">>, <<"u","s","a">>, <<"I","n","d","i","a","n","a">>,
    <<"E","s","p","i","o","n","a","g","e"," ">>, <<"f","i","n","a","n","c","i","a","l">>, <<"T","H","E","F","T">>, <<"m","a","l","w","a","r","e">>,
    <<"G","o","v","e","r","n","m","e","n","t">>, <<"e","n","e","r","g","y">>, <<" ","m","i","l","i","t","a","r","y">>, <<" ">>, <<"g","r","o","u","p"," ","i","n"," ">> }

\* the scenario of the spec
ScenarioDescription ==
  <<"S","t","a","t","e","-","s","p","o","n","s","o","r","e","d"," ","g","r","o","u","p"," ","t","a","r","g","e","t","i","n","g"," ","f","i","n","a","n","c","i","a","l"," ","i","n","s","t","i","t","u","t","i","o","n","s"," ","i","n"," ","C","h","i","n","a">>

Descriptions ==
  {Concat(fs) : fs \in SeqsUpTo(Fragments, MaxFrags)} \cup {ScenarioDescription}

\* one intrusion set, with one of the descriptions or with none
ClassifyResponses ==
  {Fetched([objects |-> << With(IntrusionSet(1, <<"A","P","T","1">>), "description", d) >>])
     : d \in Descriptions}
  \cup {Fetched([objects |-> << IntrusionSet(1, <<"A","P","T","1">>) >>])}

\* what a relationship of a generated bundle may point to: three stored
\* techniques, two of them with the same kill chain, and one that is missing
EdgeTargets == {1, 2, 3, 9}

\* two actors, three techniques and a tool; for each target in turn a
\* relationship from the first actor and one from the tool
ResolveBundle(targets) ==
  [objects |->
     << With(IntrusionSet(1, <<"A","P","T","1">>), "description", <<"C","h","i","n","a">>),
        With(IntrusionSet(2, <<"A","P","T","2">>), "description", <<"R","u","s","s","i","a">>),
        With(AttackPattern(1, <<"S","c","a","n">>), "kill_chain_phases", << Phase(<<"r","e","c","o","n">>) >>),
        With(AttackPattern(2, <<"E","x","e","c">>), "kill_chain_phases", << Phase(<<"e","x","e","c","u","t","i","o","n">>) >>),
        With(AttackPattern(3, <<"R","u","n">>), "kill_chain_phases", << Phase(<<"e","x","e","c","u","t","i","o","n">>) >>),
        Tool(1, <<"K","i","t">>),
        Relationship(IsId(9), ToolId(1)),
        Relationship(IsId(2), ToolId(1)) >>
     \o Concat([i \in 1..Len(targets) |->
           << Relationship(IsId(1), ApId(targets[i])),
              Relationship(ToolId(1), ApId(targets[i])) >>])]

ResolveResponses ==
  {Fetched(ResolveBundle(targets)) : targets \in SeqsUpTo(EdgeTargets, MaxEdges)}

\* console.size.width
Widths == {14, 15, 30, 100}

\* what the user may type at "Enter the number of ..."
SelectionLines ==
  { <<"0">>, <<"1">>, <<"2">>, <<"3">>, <<"4">>, <<"9","9","9">>, <<"-","1">>, <<"+","2">>, <<" ","1"," ">>, <<"0","_","1">>,
    <<"a","b","c">>, <<"1",".","5">>, <<"2","x">>, <<>> }

\* what the user may type at the navigation prompts
NavLines == { <<>>, <<"p">>, <<"q">>, <<"P">>, <<"Q">>, <<"n">>, <<" ">>, <<"p","q">> }

Entries == {"super", "cti_ta", "cti_tech"}

-----------------------------------------------------------------------------
(* The session.                                                            *)

VARIABLES
  entry,                \* the script that runs
  pc,                   \* where main waits: start, menu, actor_menu, actor_prompt,
                        \* pager, tool_prompt, tool_nav, done, crashed
  response,             \* what the network answers to the GET
  attack_stix_content,  \* the bundle
  fetches,              \* calls of load_attack_stix_content so far
  depth,                \* frames of main on the call stack
  raised,               \* the uncaught exception that ended the session, or ""
  out,                  \* the messages printed in the last step
  menu_choice,          \* the last choice made in a menu
  line,                 \* the last line read by console.input
  threat_actors,
  actor_list,
  selected_actor,
  actor_id,
  techniques,
  total_pages,
  current_page,
  tools,
  tool_names,
  selected_tool_id,
  screen,               \* the menu, table, page or list on display
  panel                 \* the last panel of display_related_information

vars ==
  <<entry, pc, response, attack_stix_content, fetches, depth, raised, out, menu_choice,
    line, threat_actors, actor_list, selected_actor, actor_id, techniques, total_pages,
    current_page, tools, tool_names, selected_tool_id, screen, panel>>

actor_vars ==
  <<threat_actors, actor_list, selected_actor, actor_id, techniques, total_pages,
    current_page>>

tool_vars == <<tools, tool_names, selected_tool_id, panel>>

NoScreen == [kind |-> "none"]

MenuScreen == [kind |-> "menu"]

ActorMenuScreen == [kind |-> "actor_menu"]

\* display_tools_in_columns
ToolsScreen(names) ==
  [kind |-> "tools", items |-> [i \in 1..Len(names) |-> CellText(i, names[i])]]

InitWith(responses, entries) ==
  /\ entry \in entries
  /\ response \in responses
  /\ pc = "start"
  /\ attack_stix_content = None
  /\ fetches = 0
  /\ depth = 0
  /\ raised = ""
  /\ out = <<>>
  /\ menu_choice = ""
  /\ line = <<>>
  /\ threat_actors = <<>>
  /\ actor_list = <<>>
  /\ selected_actor = NoneStr
  /\ actor_id = NoneStr
  /\ techniques = <<>>
  /\ total_pages = 0
  /\ current_page = 0
  /\ tools = <<>>
  /\ tool_names = <<>>
  /\ selected_tool_id = NoneStr
  /\ screen = NoScreen
  /\ panel = NoScreen

Init == InitWith(Responses, Entries)

\* load_attack_stix_content, were a failed request to yield an empty bundle
load_attack_stix_content_or_empty(r) == IF r.ok THEN r.json ELSE BundleEmpty

\* load_attack_stix_content for the given answer of the network
load_attack_stix_content(r) == IF r.ok THEN r.json ELSE None

\* what load_attack_stix_content prints
FetchMessages(r) == IF r.ok THEN <<>> ELSE <<"fetch_error">>

-----------------------------------------------------------------------------
(* Steps shared by cti-ta.py and super.py: the actor prompt and the pager. *)

\* "continue" of the main loop: the title screen and the menu again
BackToMenu ==
  /\ pc' = "menu"
  /\ screen' = MenuScreen

\* the stored bundle after get_techniques_for_actor wrote to its objects
Stored(content, objs) ==
  IF "objects" \in DOMAIN content THEN [content EXCEPT !.objects = objs] ELSE content

\* a grouping view was chosen: the table is printed and the number prompted
\* for, unless the display function raises
ShowGrouped(shown) ==
  IF shown.raised # ""
    THEN /\ pc' = "crashed"
         /\ raised' = shown.raised
         /\ UNCHANGED <<actor_list, screen>>
  ELSE /\ pc' = "actor_prompt"
       /\ actor_list' = shown.actor_list
       /\ screen' = [kind |-> "grouping", table |-> shown.table]
       /\ UNCHANGED raised

\* "not actor_id" for a str or None
Falsy(value) == value = NoneStr \/ value = <<>>

\* IsEmpty, were a list never to count as empty
IsEmptyNever(items) == FALSE

\* "not techniques" for a list
IsEmpty(items) == items = <<>>

\* "Enter the number of the Threat Actor": from the try block to the first
\* page of the pager
select_actor(typed) ==
  /\ entry \in {"cti_ta", "super"}
  /\ pc = "actor_prompt"
  /\ line' = typed
  /\ LET c == ParseChoice(typed, Len(actor_list))
     IN  IF ~c.ok
           THEN /\ out' = <<"invalid_choice">>
                /\ BackToMenu
                /\ UNCHANGED <<attack_stix_content, selected_actor, actor_id, techniques,
                               total_pages, current_page>>
         ELSE LET name == actor_list[c.choice + 1]
                  id == get_actor_id(attack_stix_content, name)
              IN  /\ selected_actor' = name
                  /\ actor_id' = id
                  /\ IF Falsy(id)
                       THEN /\ out' = <<"actor_not_found">>
                            /\ BackToMenu
                            /\ UNCHANGED <<attack_stix_content, techniques, total_pages,
                                           current_page>>
                     ELSE LET r == get_techniques_for_actor(attack_stix_content, id)
                          IN  /\ attack_stix_content' = Stored(attack_stix_content, r.objects)
                              /\ techniques' = r.techniques
                              /\ IF IsEmpty(r.techniques)
                                   THEN /\ out' = <<"no_techniques">>
                                        /\ BackToMenu
                                        /\ UNCHANGED <<total_pages, current_page>>
                                 ELSE /\ out' = <<>>
                                      /\ total_pages' = TotalPages(r.techniques)
                                      /\ current_page' = 1
                                      /\ pc' = "pager"
                                      /\ screen' = ShowPage(r.techniques, name, 1)
  /\ UNCHANGED <<entry, response, fetches, depth, raised, menu_choice, threat_actors,
                 actor_list, tool_vars>>

\* NavOutcome, were 'p' to go back without the test current_page > 1
NavOutcomeUnguarded(nav, page, pages) ==
  IF page = pages
    THEN IF nav = <<>> \/ nav = <<"q">> THEN [do |-> "break", page |-> page]
         ELSE IF nav = <<"p">> THEN [do |-> "turn", page |-> page - 1]
         ELSE [do |-> "invalid", page |-> page]
  ELSE IF nav = <<>> /\ page < pages THEN [do |-> "turn", page |-> page + 1]
       ELSE IF nav = <<"p">> THEN [do |-> "turn", page |-> page - 1]
       ELSE IF nav = <<"q">> THEN [do |-> "break", page |-> page]
       ELSE [do |-> "invalid", page |-> page]

\* NavOutcome, were a line it does not know to end the pager
NavOutcomeBreaking(nav, page, pages) ==
  IF page = pages
    THEN IF nav = <<"p">> /\ page > 1 THEN [do |-> "turn", page |-> page - 1]
         ELSE [do |-> "break", page |-> page]
  ELSE IF nav = <<>> /\ page < pages THEN [do |-> "turn", page |-> page + 1]
       ELSE IF nav = <<"p">> /\ page > 1 THEN [do |-> "turn", page |-> page - 1]
       ELSE [do |-> "break", page |-> page]

\* what the pager does with the line nav (already lower-cased):
\* [do: "break", "turn" or "invalid", page: the page shown next]
NavOutcome(nav, page, pages) ==
  IF page = pages
    THEN IF nav = <<>> \/ nav = <<"q">> THEN [do |-> "break", page |-> page]
         ELSE IF nav = <<"p">> /\ page > 1 THEN [do |-> "turn", page |-> page - 1]
         ELSE [do |-> "invalid", page |-> page]
  ELSE IF nav = <<>> /\ page < pages THEN [do |-> "turn", page |-> page + 1]
       ELSE IF nav = <<"p">> /\ page > 1 THEN [do |-> "turn", page |-> page - 1]
       ELSE IF nav = <<"q">> THEN [do |-> "break", page |-> page]
       ELSE [do |-> "invalid", page |-> page]

\* one line read at "Page i/n. Press Enter ...": the pager leaves its loop,
\* or prints "Invalid input." or not and shows a page
pager_nav(typed) ==
  /\ entry \in {"cti_ta", "super"}
  /\ pc = "pager"
  /\ line' = typed
  /\ LET o == NavOutcome(lower(typed), current_page, total_pages)
     IN  /\ out' = IF o.do = "invalid" THEN <<"invalid_input">> ELSE <<>>
         /\ current_page' = o.page
         /\ IF o.do = "break"
              THEN BackToMenu
            ELSE /\ pc' = "pager"
                 /\ screen' = ShowPage(techniques, selected_actor, o.page)
  /\ UNCHANGED <<entry, response, attack_stix_content, fetches, depth, raised, menu_choice,
                 threat_actors, actor_list, selected_actor, actor_id, techniques,
                 total_pages, tool_vars>>

-----------------------------------------------------------------------------
(* cti-ta.py                                                               *)

\* main up to the first menu
ta_main ==
  /\ entry = "cti_ta"
  /\ pc = "start"
  /\ fetches' = fetches + 1
  /\ depth' = 1
  /\ attack_stix_content' = load_attack_stix_content(response)
  /\ IF ~Truthy(attack_stix_content')
       THEN /\ out' = FetchMessages(response) \o <<"load_failed">>
            /\ pc' = "done"
            /\ UNCHANGED <<threat_actors, screen>>
     ELSE /\ out' = <<>>
          /\ threat_actors' = get_all_threat_actors(attack_stix_content')
          /\ pc' = "menu"
          /\ screen' = MenuScreen
  /\ UNCHANGED <<entry, response, raised, menu_choice, line, actor_list, selected_actor,
                 actor_id, techniques, total_pages, current_page, tool_vars>>

TaMenu == {"Geographical Region", "Activity Type", "Target Sector", "Exit"}

\* the display function of a grouping choice
DisplayFor(choice, actors, width) ==
  IF choice = "Geographical Region" THEN display_threat_actors_by_geo(actors, width)
  ELSE IF choice = "Activity Type" THEN display_threat_actors_by_activity(actors, width)
  ELSE display_threat_actors_by_sector(actors, width)

\* a choice in the menu of cti-ta.py, on a terminal of the given width
ta_menu(choice, width) ==
  /\ entry = "cti_ta"
  /\ pc = "menu"
  /\ menu_choice' = choice
  /\ out' = <<>>
  /\ IF choice = "Exit"
       THEN /\ pc' = "done"
            /\ UNCHANGED <<raised, actor_list, screen>>
     ELSE ShowGrouped(DisplayFor(choice, threat_actors, width))
  /\ UNCHANGED <<entry, response, attack_stix_content, fetches, depth, line, threat_actors,
                 selected_actor, actor_id, techniques, total_pages, current_page,
                 tool_vars>>

-----------------------------------------------------------------------------
(* super.py                                                                *)

\* main up to the first menu
super_main ==
  /\ entry = "super"
  /\ pc = "start"
  /\ fetches' = fetches + 1
  /\ depth' = 1
  /\ attack_stix_content' = load_attack_stix_content(response)
  /\ IF ~Truthy(attack_stix_content')
       THEN /\ out' = FetchMessages(response) \o <<"load_failed">>
            /\ pc' = "done"
            /\ UNCHANGED screen
     ELSE /\ out' = <<>>
          /\ pc' = "menu"
          /\ screen' = MenuScreen
  /\ UNCHANGED <<entry, response, raised, menu_choice, line, actor_vars, tool_vars>>

SuperMenu == {"Threat Actors", "Tools", "Exit"}

\* a choice in the main menu of super.py
super_menu(choice) ==
  /\ entry = "super"
  /\ pc = "menu"
  /\ menu_choice' = choice
  /\ out' = <<>>
  /\ IF choice = "Exit"
       THEN /\ pc' = "done"
            /\ UNCHANGED <<threat_actors, tools, tool_names, screen>>
     ELSE IF choice = "Threat Actors"
       THEN /\ threat_actors' = get_all_threat_actors(attack_stix_content)
            /\ pc' = "actor_menu"
            /\ screen' = ActorMenuScreen
            /\ UNCHANGED <<tools, tool_names>>
     ELSE /\ tools' = load_tools(attack_stix_content)
          /\ tool_names' = ToolNames(tools')
          /\ pc' = "tool_prompt"
          /\ screen' = ToolsScreen(tool_names')
          /\ UNCHANGED threat_actors
  /\ UNCHANGED <<entry, response, attack_stix_content, fetches, depth, raised, line,
                 actor_list, selected_actor, actor_id, techniques, total_pages,
                 current_page, selected_tool_id, panel>>

ActorMenu == {"Geographical Region", "Activity Type", "Target Sector", "Back to Main Menu"}

\* a choice in the actor menu of super.py, on a terminal of the given width
super_actor_menu(choice, width) ==
  /\ entry = "super"
  /\ pc = "actor_menu"
  /\ menu_choice' = choice
  /\ out' = <<>>
  /\ IF choice = "Back to Main Menu"
       THEN /\ BackToMenu
            /\ UNCHANGED <<raised, actor_list>>
     ELSE ShowGrouped(DisplayFor(choice, threat_actors, width))
  /\ UNCHANGED <<entry, response, attack_stix_content, fetches, depth, line, threat_actors,
                 selected_actor, actor_id, techniques, total_pages, current_page,
                 tool_vars>>

\* display_related_information
RelatedPanel(content, tool) ==
  [kind |-> "panel",
   title |-> tool.name,
   description |-> tool.description,
   techniques |-> get_techniques_for_tool(content, tool.id),
   actors |-> get_actors_for_tool(content, tool.id)]

\* "Enter the number of the Tool" in super.py
super_tool_select(typed) ==
  /\ entry = "super"
  /\ pc = "tool_prompt"
  /\ line' = typed
  /\ LET c == ParseChoice(typed, Len(tool_names))
     IN  IF ~c.ok
           THEN /\ out' = <<"invalid_choice">>
                /\ pc' = "tool_prompt"
                /\ screen' = ToolsScreen(tool_names)
                /\ UNCHANGED <<selected_tool_id, panel>>
         ELSE /\ out' = <<>>
              /\ selected_tool_id' = tools[c.choice + 1].id
              /\ panel' = RelatedPanel(attack_stix_content, tools[c.choice + 1])
              /\ pc' = "tool_nav"
              /\ screen' = panel'
  /\ UNCHANGED <<entry, response, attack_stix_content, fetches, depth, raised, menu_choice,
                 actor_vars, tools, tool_names>>

\* "Press Enter to see another tool or 'q' to return to the main menu"
super_tool_nav(typed) ==
  /\ entry = "super"
  /\ pc = "tool_nav"
  /\ line' = typed
  /\ out' = <<>>
  /\ IF lower(typed) = <<"q">>
       THEN BackToMenu
     ELSE /\ pc' = "tool_prompt"
          /\ screen' = ToolsScreen(tool_names)
  /\ UNCHANGED <<entry, response, attack_stix_content, fetches, depth, raised, menu_choice,
                 actor_vars, tool_vars>>

-----------------------------------------------------------------------------
(* cti-tech.py                                                             *)

\* main of cti-tech.py from its first line to its prompt, for the answer r of
\* the network, with shown on display when it is called
TechEnter(r, shown) ==
  /\ fetches' = fetches + 1
  /\ depth' = depth + 1
  /\ attack_stix_content' = load_attack_stix_content(r)
  /\ IF ~Truthy(attack_stix_content')
       THEN /\ out' = FetchMessages(r)
            /\ pc' = "done"
            /\ screen' = shown
            /\ UNCHANGED <<tools, tool_names>>
     ELSE /\ out' = <<>>
          /\ tools' = load_tools(attack_stix_content')
          /\ tool_names' = ToolNames(tools')
          /\ pc' = "tool_prompt"
          /\ screen' = ToolsScreen(tool_names')

\* the call of main by the script
tech_main ==
  /\ entry = "cti_tech"
  /\ pc = "start"
  /\ TechEnter(response, screen)
  /\ UNCHANGED <<entry, response, raised, menu_choice, line, actor_vars,
                 selected_tool_id, panel>>

\* "Enter the number of the Tool" in cti-tech.py: an invalid choice returns,
\* a valid one shows the panel and calls main again, which fetches again
tech_tool_select(typed, r) ==
  /\ entry = "cti_tech"
  /\ pc = "tool_prompt"
  /\ line' = typed
  /\ LET c == ParseChoice(typed, Len(tool_names))
     IN  IF ~c.ok
           THEN /\ out' = <<"invalid_choice">>
                /\ pc' = "done"
                /\ UNCHANGED <<attack_stix_content, fetches, depth, tools, tool_names,
                               selected_tool_id, panel, screen>>
         ELSE /\ depth < MaxDepth
              /\ selected_tool_id' = tools[c.choice + 1].id
              /\ panel' = RelatedPanel(attack_stix_content, tools[c.choice + 1])
              /\ TechEnter(r, panel')
  /\ UNCHANGED <<entry, response, raised, menu_choice, actor_vars>>

-----------------------------------------------------------------------------

Next ==
  \/ ta_main
  \/ \E choice \in TaMenu, width \in Widths : ta_menu(choice, width)
  \/ super_main
  \/ \E choice \in SuperMenu : super_menu(choice)
  \/ \E choice \in ActorMenu, width \in Widths : super_actor_menu(choice, width)
  \/ \E typed \in SelectionLines : select_actor(typed)
  \/ \E typed \in NavLines : pager_nav(typed)
  \/ \E typed \in SelectionLines : super_tool_select(typed)
  \/ \E typed \in NavLines : super_tool_nav(typed)
  \/ tech_main
  \/ \E typed \in SelectionLines, r \in {response, FetchFailed} : tech_tool_select(typed, r)

Spec == Init /\ [][Next]_vars

\* the actor flow: listing, grouping, selection and paging
NextActors ==
  \/ ta_main
  \/ \E choice \in TaMenu, width \in Widths : ta_menu(choice, width)
  \/ super_main
  \/ \E choice \in SuperMenu : super_menu(choice)
  \/ \E choice \in ActorMenu, width \in Widths : super_actor_menu(choice, width)
  \/ \E typed \in SelectionLines : select_actor(typed)
  \/ \E typed \in NavLines : pager_nav(typed)

\* listing and grouping only
NextGrouping ==
  \/ ta_main
  \/ \E choice \in TaMenu, width \in Widths : ta_menu(choice, width)
  \/ super_main
  \/ \E choice \in SuperMenu : super_menu(choice)
  \/ \E choice \in ActorMenu, width \in Widths : super_actor_menu(choice, width)

\* listing only
NextListing ==
  \/ ta_main
  \/ super_main
  \/ \E choice \in SuperMenu : super_menu(choice)

ActorEntries == {"cti_ta", "super"}

\* the browsing of paged technique lists
InitPager == InitWith(PagerResponses, ActorEntries)

SpecPager == InitPager /\ [][NextActors]_vars

\* the grouped actor listings
InitGroup == InitWith(GroupResponses, ActorEntries)

SpecGroup == InitGroup /\ [][NextGrouping]_vars

\* the classified actor listings
InitClassify == InitWith(ClassifyResponses, ActorEntries)

SpecClassify == InitClassify /\ [][NextListing]_vars

\* the lines typed while browsing the generated bundles
ResolveLines == { <<"1">>, <<"2">> }

\* the choices made in the actor menu while browsing them
ResolveMenu == {"Geographical Region", "Back to Main Menu"}

\* super.py over the generated bundles: actors and tools resolved in turn
NextResolve ==
  \/ super_main
  \/ \E choice \in SuperMenu : super_menu(choice)
  \/ \E choice \in ResolveMenu : super_actor_menu(choice, 100)
  \/ \E typed \in ResolveLines : select_actor(typed)
  \/ pager_nav(<<"q">>)
  \/ \E typed \in ResolveLines : super_tool_select(typed)
  \/ super_tool_nav(<<"q">>)

InitResolve == InitWith(ResolveResponses, {"super"})

SpecResolve == InitResolve /\ [][NextResolve]_vars
-----------------------------------------------------------------------------
(* Properties.                                                             *)

Range(s) == {s[i] : i \in 1..Len(s)}

NonBlank(cells) == SelectSeq(cells, LAMBDA c : c # <<>>)

\* the key a grouping view groups by
ViewKey(choice) ==
  IF choice = "Geographical Region" THEN "geo_info"
  ELSE IF choice = "Activity Type" THEN "activity_type"
  ELSE "target_sector"

\* the listed actors of the bucket with the given tag, in list order
MembersOf(tag, key) == SelectSeq(threat_actors, LAMBDA a : a[key] = tag)

\* the place in the listing of the first actor with the given tag
FirstAt(tag, key) ==
  CHOOSE i \in 1..Len(threat_actors) :
    /\ threat_actors[i][key] = tag
    /\ \A j \in 1..(i - 1) : threat_actors[j][key] # tag

\* the names met scanning the buckets row by row, each row bucket by bucket
ScanNames(columns, num_rows, key) ==
  Concat([r \in 1..num_rows |->
    Concat([b \in 1..Len(columns) |->
      IF r <= Len(MembersOf(columns[b], key))
        THEN << MembersOf(columns[b], key)[r].name >> ELSE <<>>])])

\* C1: while a grouping table is on display, its columns are the buckets in
\* first-seen order, a cell is blank exactly when its bucket has no member for
\* its row, and the selection list returned is the row by row, bucket by
\* bucket scan of the table: as long as the number of non-blank cells, entry
\* i being the actor of the cell printed with number i.
C1_SelectionListIsTableScan ==
  screen.kind = "grouping" =>
    LET key == ViewKey(menu_choice)
        columns == screen.table.columns
        rows == screen.table.rows
        cells == NonBlank(Concat(rows))
    IN  /\ Range(columns) = {a[key] : a \in Range(threat_actors)}
        /\ \A b1, b2 \in 1..Len(columns) :
             b1 < b2 => FirstAt(columns[b1], key) < FirstAt(columns[b2], key)
        /\ \A r \in 1..Len(rows) :
             /\ Len(rows[r]) = Len(columns)
             /\ \A b \in 1..Len(columns) :
                  rows[r][b] # <<>> <=> r <= Len(MembersOf(columns[b], key))
        /\ Len(actor_list) = Len(cells)
        /\ \A i \in 1..Len(cells) : cells[i] = CellText(i, actor_list[i])
        /\ actor_list = ScanNames(columns, Len(rows), key)

\* a table of two buckets and two rows with a blank cell
C1_Witness ==
  /\ screen.kind = "grouping"
  /\ Len(screen.table.columns) >= 2
  /\ Len(screen.table.rows) >= 2
  /\ \E r \in 1..Len(screen.table.rows) : <<>> \in Range(screen.table.rows[r])
  /\ Len(actor_list) >= 3

\* the line is an integer literal n with 1 <= n <= size
Selects(typed, size) ==
  ParseInt(typed).ok /\ 1 <= ParseInt(typed).value /\ ParseInt(typed).value <= size

\* C2: a line typed at a number prompt is accepted exactly when it parses as
\* an integer n with 1 <= n <= length of the list on display, and then the
\* entry selected is entry n of that list (the actor list, the tool list).
C2_SelectionAccepted ==
  [][ /\ pc = "actor_prompt" =>
           /\ Selects(line', Len(actor_list)) <=> out' # <<"invalid_choice">>
           /\ Selects(line', Len(actor_list)) =>
                selected_actor' = actor_list[ParseInt(line').value]
      /\ pc = "tool_prompt" =>
           /\ Selects(line', Len(tool_names)) <=> out' # <<"invalid_choice">>
           /\ Selects(line', Len(tool_names)) =>
                LET n == ParseInt(line').value
                IN  /\ selected_tool_id' = tools[n].id
                    /\ panel'.title = tool_names[n]
                    /\ screen.items[n] = CellText(n, panel'.title)
    ]_vars

\* the second of two listed actors was selected by "+2", the second tool by "2"
C2_Witness ==
  \/ /\ pc = "pager" /\ line = <<"+","2">> /\ Len(actor_list) = 2
     /\ selected_actor = actor_list[2]
  \/ /\ pc = "tool_nav" /\ line = <<"2">> /\ Len(tool_names) = 2
     /\ selected_tool_id = tools[2].id

\* C3: in every entry point a selection that is not a number or is out of
\* range raises nothing, is reported as an invalid choice, changes neither
\* the bundle nor the lists built nor the pager, and the session prompts again.
C3_InvalidSelectionReprompts ==
  [][ ( \/ pc = "actor_prompt" /\ ~Selects(line', Len(actor_list))
        \/ pc = "tool_prompt" /\ ~Selects(line', Len(tool_names)) )
      => /\ raised' = ""
         /\ out' = <<"invalid_choice">>
         /\ pc' \notin {"done", "crashed"}
         /\ UNCHANGED <<attack_stix_content, threat_actors, actor_list, techniques,
                        total_pages, current_page, tools, tool_names>>
    ]_vars

\* the names of the rows of a page
RowNames(page) == [i \in 1..Len(page.rows) |-> page.rows[i].name]

\* C4: in the pager, total_pages is the least number of pages of 5 that hold
\* the list; the page on display shows items (p-1)*5 .. p*5-1 clipped to the
\* end of the list, item k (0-based) under number k+1; no page is empty, only
\* the last may be short, and the pages in order make up the list.
C4_PagesPartitionTheList ==
  pc = "pager" =>
    LET n == Len(techniques)
        first == (current_page - 1) * 5
    IN  /\ n > 0
        /\ (total_pages - 1) * 5 < n /\ n <= total_pages * 5
        /\ screen.kind = "techniques"
        /\ Len(screen.rows) >= 1 /\ Len(screen.rows) <= 5
        /\ current_page < total_pages => Len(screen.rows) = 5
        /\ current_page = total_pages => Len(screen.rows) = n - first
        /\ \A j \in 1..Len(screen.rows) :
             /\ screen.rows[j].name = techniques[first + j].name
             /\ screen.rows[j].no = IntToStr(first + j)
        /\ Concat([p \in 1..total_pages |->
                     RowNames(ShowPage(techniques, selected_actor, p))])
             = [k \in 1..n |-> techniques[k].name]

\* the short last page of a list of three pages
C4_Witness ==
  /\ pc = "pager"
  /\ total_pages = 3 /\ current_page = 3
  /\ Len(screen.rows) < 5
  /\ screen.rows[1].no = <<"1","1">>

\* C5: current_page starts at 1 and stays within 1 .. total_pages; an empty
\* line moves one page forward and only when current_page < total_pages, 'p'
\* moves one page back and only when current_page > 1, 'q' ends the pager
\* from any page and no further page is shown.
C5_PagerNavigation ==
  /\ [](pc = "pager" => 1 <= current_page /\ current_page <= total_pages)
  /\ [][ /\ pc # "pager" /\ pc' = "pager" => current_page' = 1
         /\ pc = "pager" =>
              /\ line' = <<>> =>
                   IF current_page < total_pages
                     THEN pc' = "pager" /\ current_page' = current_page + 1
                   ELSE current_page' # current_page + 1
              /\ line' = <<"p">> =>
                   IF current_page > 1
                     THEN pc' = "pager" /\ current_page' = current_page - 1
                   ELSE current_page' # current_page - 1
              /\ line' = <<"q">> => pc' # "pager" /\ screen'.kind # "techniques"
              /\ pc' = "pager" => screen' = ShowPage(techniques, selected_actor, current_page')
       ]_vars

\* forward to the second of three pages by an empty line
C5_Witness ==
  pc = "pager" /\ line = <<>> /\ current_page = 2 /\ total_pages = 3

\* C6 as claimed: 'p' on page 1, or any line other than the empty one, 'p'
\* and 'q', leaves current_page and the technique list unchanged, prints the
\* error, and the pager stays on the same page.
C6_InvalidNavigationStays ==
  [][ ( /\ pc = "pager"
        /\ \/ line' = <<"p">> /\ current_page = 1
           \/ line' \notin {<<>>, <<"p">>, <<"q">>} )
      => /\ current_page' = current_page
         /\ techniques' = techniques
         /\ out' = <<"invalid_input">>
         /\ pc' = "pager"
         /\ screen' = ShowPage(techniques, selected_actor, current_page)
    ]_vars

\* C6 as amended: the line is compared after lower-casing. 'p' or 'P' on
\* page 1, or any line that lower-cased is not the empty one, 'p' or 'q',
\* leaves current_page and the technique list unchanged, prints the error,
\* and the pager stays on the same page.
C6_InvalidLoweredNavigationStays ==
  [][ ( /\ pc = "pager"
        /\ \/ lower(line') = <<"p">> /\ current_page = 1
           \/ lower(line') \notin {<<>>, <<"p">>, <<"q">>} )
      => /\ current_page' = current_page
         /\ techniques' = techniques
         /\ out' = <<"invalid_input">>
         /\ pc' = "pager"
         /\ screen' = ShowPage(techniques, selected_actor, current_page)
    ]_vars

\* "Invalid input." after an unknown line on the second page and after 'P'
\* on the first
C6_Witness ==
  /\ pc = "pager"
  /\ out = <<"invalid_input">>
  /\ \/ line = <<"n">> /\ current_page = 2
     \/ line = <<"P">> /\ current_page = 1

\* C7: on the last page an empty line restarts: the pager stays active and
\* page 1 of the same list is shown next.
C7_EnterOnLastPageRestarts ==
  [][ pc = "pager" /\ current_page = total_pages /\ line' = <<>>
      => /\ pc' = "pager"
         /\ current_page' = 1
         /\ techniques' = techniques
         /\ screen' = ShowPage(techniques, selected_actor, 1)
    ]_vars

\* the description the summary of an actor was classified from
DescriptionOf(actor) ==
  LET objs == Objects(attack_stix_content)
      k == CHOOSE k \in 1..Len(objs) :
             Get(objs[k], "type", "") = "intrusion-set" /\ objs[k].name = actor.name
  IN  Get(objs[k], "description", <<>>)

\* the text mentions the keyword somewhere, letter case ignored
Mentions(text, keyword) ==
  \E at \in 0..(Len(text) - Len(keyword)) :
    \A j \in 1..Len(keyword) : lower(<<text[at + j]>>) = lower(<<keyword[j]>>)

\* the places in the list of the keywords the text mentions
Mentioned(text, keywords) == {i \in 1..Len(keywords) : Mentions(text, keywords[i])}

Least(S) == CHOOSE i \in S : \A j \in S : i <= j

Listed == pc \in {"menu", "actor_menu"} /\ threat_actors # <<>>

\* C8: every listed actor has one tag per axis, and where the description
\* mentions none of the keywords of an axis (a missing or empty description
\* mentions none) the tag is the fallback of the axis: "Unknown" for
\* geography, "Other" for activity and sector.
C8_FallbackTags ==
  Listed =>
    \A a \in Range(threat_actors) :
      LET d == DescriptionOf(a)
      IN  /\ a.geo_info \in Range(geo_keywords) \cup {Unknown}
          /\ a.activity_type \in {capitalize(k) : k \in Range(activity_keywords)} \cup {Other}
          /\ a.target_sector \in {capitalize(k) : k \in Range(sector_keywords)} \cup {Other}
          /\ Mentioned(d, geo_keywords) = {} => a.geo_info = <<"U","n","k","n","o","w","n">>
          /\ Mentioned(d, activity_keywords) = {} => a.activity_type = <<"O","t","h","e","r">>
          /\ Mentioned(d, sector_keywords) = {} => a.target_sector = <<"O","t","h","e","r">>

\* an actor without a description, listed with the three fallback tags
C8_Witness ==
  /\ Listed
  /\ \A k \in 1..Len(Objects(attack_stix_content)) :
       "description" \notin DOMAIN Objects(attack_stix_content)[k]
  /\ threat_actors[1].geo_info = <<"U","n","k","n","o","w","n">>
  /\ threat_actors[1].activity_type = <<"O","t","h","e","r">>
  /\ threat_actors[1].target_sector = <<"O","t","h","e","r">>

\* C9: where the description mentions keywords of an axis, the tag comes from
\* the mentioned keyword that is first in the list of the axis, wherever the
\* keywords stand in the text and in whatever case: the keyword itself for
\* geography, the keyword capitalized for activity and sector.
C9_FirstListedKeywordWins ==
  Listed =>
    \A a \in Range(threat_actors) :
      LET d == DescriptionOf(a)
          geo == Mentioned(d, geo_keywords)
          act == Mentioned(d, activity_keywords)
          sec == Mentioned(d, sector_keywords)
      IN  /\ geo # {} => a.geo_info = geo_keywords[Least(geo)]
          /\ act # {} => a.activity_type = capitalize(activity_keywords[Least(act)])
          /\ sec # {} => a.target_sector = capitalize(sector_keywords[Least(sec)])
          /\ d = ScenarioDescription =>
               /\ a.geo_info = <<"C","h","i","n","a">>
               /\ a.activity_type = <<"F","i","n","a","n","c","i","a","l">>
               /\ a.target_sector = <<"F","i","n","a","n","c","i","a","l">>

\* "RUSSIAChina" is tagged China and "THEFTfinancial" Financial: the keyword
\* first in the list stands last in the text, in another case
C9_Witness ==
  /\ Listed
  /\ \/ /\ DescriptionOf(threat_actors[1]) = <<"R","U","S","S","I","A","C","h","i","n","a">>
        /\ threat_actors[1].geo_info = <<"C","h","i","n","a">>
     \/ /\ DescriptionOf(threat_actors[1]) = <<"T","H","E","F","T","f","i","n","a","n","c","i","a","l">>
        /\ threat_actors[1].activity_type = <<"F","i","n","a","n","c","i","a","l">>
        /\ threat_actors[1].target_sector = <<"F","i","n","a","n","c","i","a","l">>

\* the stored object of the given type and id, as a sequence of none or one
StoredAs(type, id) ==
  LET objs == Objects(attack_stix_content)
      ks == {k \in 1..Len(objs) : Get(objs[k], "type", "") = type /\ Get(objs[k], "id", NoneStr) = id}
  IN  IF ks = {} THEN <<>> ELSE << objs[Least(ks)] >>

\* resolution by the type of the referenced object: one entry per relationship
\* from the anchor to a stored attack-pattern, in scan order
TechniquesBySource(anchor) ==
  LET objs == Objects(attack_stix_content)
  IN  Concat([i \in 1..Len(objs) |->
        IF Get(objs[i], "type", "") = "relationship" /\ objs[i].source_ref = anchor
          THEN StoredAs("attack-pattern", objs[i].target_ref) ELSE <<>>])

\* one entry per relationship to the anchor from a stored intrusion-set
ActorsByTarget(anchor) ==
  LET objs == Objects(attack_stix_content)
  IN  Concat([i \in 1..Len(objs) |->
        IF Get(objs[i], "type", "") = "relationship" /\ objs[i].target_ref = anchor
          THEN StoredAs("intrusion-set", objs[i].source_ref) ELSE <<>>])

NamesOf(items) == [i \in 1..Len(items) |-> items[i].name]

\* C10: the techniques resolved for the selected actor are, in relationship
\* scan order and undeduplicated, the stored attack-pattern objects that the
\* relationships from the actor refer to, whatever their ids look like, and
\* the actors resolved for the selected tool are the stored intrusion sets of
\* the relationships to the tool; actor X1 with relationships to T1 and T2
\* resolves to the two technique objects.
C10_ResolutionByType ==
  /\ actor_id \notin {NoneStr, <<>>} => techniques = TechniquesBySource(actor_id)
  /\ pc = "tool_nav"
       => NamesOf(panel.actors) = NamesOf(ActorsByTarget(selected_tool_id))

\* some stored object has the given id
Present(id) ==
  \E k \in 1..Len(Objects(attack_stix_content)) :
    Get(Objects(attack_stix_content)[k], "id", NoneStr) = id

\* the far ends, in scan order, of the relationships whose near end is the
\* anchor and whose far end refers to an object of the given kind
FarEnds(anchor, near, far, kind) ==
  LET objs == Objects(attack_stix_content)
  IN  Concat([i \in 1..Len(objs) |->
        IF /\ Get(objs[i], "type", "") = "relationship"
           /\ objs[i][near] = anchor
           /\ Contains(kind, objs[i][far])
          THEN << objs[i][far] >> ELSE <<>>])

\* the names of the stored objects of the given type that the ids refer to
NamesAt(type, ids) == [i \in 1..Len(ids) |-> StoredAs(type, ids[i])[1].name]

\* how many entries of the sequence are x
Count(s, x) == Cardinality({i \in 1..Len(s) : s[i] = x})

SameBag(s, t) == Len(s) = Len(t) /\ \A x \in Range(s) \cup Range(t) : Count(s, x) = Count(t, x)

\* C11: a relationship that matches the anchor but refers to an id that is
\* not in the bundle is skipped: no exception ends the session, the result
\* holds no None for it, and it holds one entry for each of the other
\* matching relationships, for the techniques of an actor, the techniques
\* of a tool and the actors of a tool alike.
C11_DanglingSkipped ==
  /\ raised = ""
  /\ actor_id \notin {NoneStr, <<>>} =>
       LET kept == SelectSeq(FarEnds(actor_id, "source_ref", "target_ref",
                                     <<"a","t","t","a","c","k","-","p","a","t","t","e","r","n">>), Present)
       IN  /\ None \notin Range(techniques)
           /\ NamesOf(techniques) = NamesAt("attack-pattern", kept)
  /\ pc = "tool_nav" =>
       LET kept == SelectSeq(FarEnds(selected_tool_id, "source_ref", "target_ref",
                                     <<"a","t","t","a","c","k","-","p","a","t","t","e","r","n">>), Present)
           users == SelectSeq(FarEnds(selected_tool_id, "target_ref", "source_ref",
                                      <<"i","n","t","r","u","s","i","o","n","-","s","e","t">>), Present)
       IN  /\ None \notin Range(panel.techniques) \cup Range(panel.actors)
           /\ SameBag(NamesOf(panel.techniques), NamesAt("attack-pattern", kept))
           /\ NamesOf(panel.actors) = NamesAt("intrusion-set", users)

\* the first page of an actor with a relationship to a missing technique
\* between two relationships to stored ones
C11_Witness ==
  /\ pc = "pager"
  /\ LET ends == FarEnds(actor_id, "source_ref", "target_ref", <<"a","t","t","a","c","k","-","p","a","t","t","e","r","n">>)
     IN  /\ Len(ends) = 3
         /\ Present(ends[1]) /\ ~Present(ends[2]) /\ Present(ends[3])
  /\ Len(techniques) = 2


\* C12 as claimed: once the bundle is loaded, no step of the session adds,
\* removes or changes a field of a stored object.
C12_BundleReadOnly ==
  [][pc # "start" => attack_stix_content' = attack_stix_content]_vars

\* C13 as claimed: along a session of any of the three scripts,
\* load_attack_stix_content is called once, at startup, and never again.
C13_FetchedOnce ==
  /\ [](pc # "start" => fetches >= 1)
  /\ [][pc # "start" => fetches' = fetches]_vars

\* the screens that end in a menu or a prompt
Prompting == {"menu", "actor_menu", "grouping", "techniques", "tools"}

\* C14: a fetch that fails with a request error leaves no bundle and ends
\* the session in the same step, with no menu, list or prompt put on
\* display (what stays on display is the panel shown before the call); nothing happens once the session has ended, so nothing is shown
\* later and the fetch is not tried again.
C14_FetchFailureAborts ==
  /\ [][ ("fetch_error" \in Range(out') /\ fetches' > fetches)
           => /\ pc' = "done"
              /\ attack_stix_content' = None
              /\ screen'.kind \notin Prompting
         ]_vars
  /\ [][pc # "done"]_vars
  /\ [](response = FetchFailed /\ pc # "start"
          => pc = "done" /\ fetches = 1 /\ screen = NoScreen)

\* the session of a script has ended on the failure of its first fetch
C14_Witness ==
  /\ response = FetchFailed
  /\ pc = "done"
  /\ "fetch_error" \in Range(out)
  /\ fetches = 1

Views == {"Geographical Region", "Activity Type", "Target Sector"}

\* the size of the largest bucket of the listing under the given key
MaxBucket(key) ==
  LET sizes == {Len(MembersOf(a[key], key)) : a \in Range(threat_actors)}
  IN  CHOOSE n \in sizes : \A m \in sizes : m <= n

\* C15 as claimed: for a listing that is not empty and a terminal of any
\* width, widths below 15 included, a grouping view divides by a column count
\* of at least 1 and prints its table, of ceil(max_bucket_size / num_columns)
\* rows with num_columns = max(1, min(6, width div 15)).
C15_ColumnCountClamped ==
  [][ (pc \in {"menu", "actor_menu"} /\ menu_choice' \in Views /\ threat_actors # <<>>)
        => /\ raised' = ""
           /\ pc' = "actor_prompt"
           /\ \E width \in Widths :
                LET n == NumColumns(width)
                IN  Len(screen'.table.rows)
                      = Ceil(MaxBucket(ViewKey(menu_choice')), IF n < 1 THEN 1 ELSE n)
    ]_vars

\* the payload was fetched and has no "objects" key
LacksObjects == response.ok /\ "objects" \notin DOMAIN response.json

\* C16 as claimed: a fetched payload without the "objects" key, the empty
\* document {} included, starts the session as a bundle of no objects: the
\* first menu or prompt is shown, nothing is reported as failed, and the
\* actor listing, the tool listing, the lookup of an actor id and the
\* resolutions over the bundle are empty or None.
C16_MissingObjectsIsEmptyBundle ==
  [][ (pc = "start" /\ LacksObjects)
        => /\ pc' \in {"menu", "tool_prompt"}
           /\ out' = <<>>
           /\ get_all_threat_actors(attack_stix_content') = <<>>
           /\ load_tools(attack_stix_content') = <<>>
           /\ get_actor_id(attack_stix_content', <<"A">>) = NoneStr
           /\ get_techniques_for_actor(attack_stix_content', IsId(1)).techniques = <<>>
           /\ get_techniques_for_tool(attack_stix_content', ToolId(1)) = <<>>
           /\ get_actors_for_tool(attack_stix_content', ToolId(1)) = <<>>
    ]_vars

\* the entries of the sequence whose kill-chain string is v, by name
NamesWithKillChain(items, chain(_), v) ==
  NamesOf(SelectSeq(items, LAMBDA t : chain(t) = v))

PanelKillChain(t) == t.kill_chain

\* C17: the techniques of the selected actor stand in the order in which
\* their relationships are met in the bundle; the techniques of the selected
\* tool stand in non-decreasing order of their kill-chain string, those of
\* an equal string in the order of their relationships.
C17_TechniqueOrder ==
  /\ actor_id \notin {NoneStr, <<>>} =>
       NamesOf(techniques) = NamesOf(TechniquesBySource(actor_id))
  /\ pc = "tool_nav" =>
       LET listed == panel.techniques
           met == TechniquesBySource(selected_tool_id)
       IN  /\ \A i, j \in 1..Len(listed) :
                i < j => ~StrLess(listed[j].kill_chain, listed[i].kill_chain)
           /\ \A t \in Range(listed) :
                NamesWithKillChain(listed, PanelKillChain, t.kill_chain)
                  = NamesWithKillChain(met, KillChainOf, t.kill_chain)

\* a tool whose relationships meet Scan, Run and Exec in this order: Run and
\* Exec, of the same kill chain, come first and keep their order
C17_Witness ==
  /\ pc = "tool_nav"
  /\ NamesOf(TechniquesBySource(selected_tool_id)) = << <<"S","c","a","n">>, <<"R","u","n">>, <<"E","x","e","c">> >>
  /\ NamesOf(panel.techniques) = << <<"R","u","n">>, <<"E","x","e","c">>, <<"S","c","a","n">> >>

\* the summaries of the stored intrusion sets, in the order of the bundle
ActorsMet ==
  LET objs == Objects(attack_stix_content)
  IN  Concat([k \in 1..Len(objs) |->
        IF Get(objs[k], "type", "") = "intrusion-set"
          THEN << ActorSummary(objs[k]) >> ELSE <<>>])

Named(actors, name) == SelectSeq(actors, LAMBDA a : a.name = name)

\* C18 as claimed: the actor list of a session is in non-decreasing order of
\* name, entries of an equal name stand in the order of the bundle, and no
\* two entries have the same name.
C18_ActorListSortedUnique ==
  threat_actors # <<>> =>
    /\ \A i, j \in 1..Len(threat_actors) :
         i < j => ~StrLess(threat_actors[j].name, threat_actors[i].name)
    /\ \A a \in Range(threat_actors) :
         Named(threat_actors, a.name) = Named(ActorsMet, a.name)
    /\ \A i, j \in 1..Len(threat_actors) :
         i < j => threat_actors[i].name # threat_actors[j].name

\* C19 as claimed: with an empty actor list, the choice of a grouping view
\* raises nothing and returns an empty selection list, and the session goes
\* on to a prompt.
C19_EmptyListRecovered ==
  [][ (pc \in {"menu", "actor_menu"} /\ menu_choice' \in Views /\ threat_actors = <<>>)
        => /\ raised' = ""
           /\ actor_list' = <<>>
           /\ pc' \in {"actor_prompt", "menu", "actor_menu"}
    ]_vars

\* C20 as claimed: the selection list returned by a grouping view on a
\* terminal at least 15 wide holds the name of each listed actor exactly
\* once.
C20_SelectionListIsPermutation ==
  screen.kind = "grouping" => SameBag(actor_list, NamesOf(threat_actors))

\* the summaries met scanning the buckets row by row, each row bucket by bucket
ScanSummaries(columns, num_rows, key) ==
  Concat([r \in 1..num_rows |->
    Concat([b \in 1..Len(columns) |->
      IF r <= Len(MembersOf(columns[b], key))
        THEN << MembersOf(columns[b], key)[r] >> ELSE <<>>])])

\* the ids of the stored intrusion sets that the summary is derived from
OriginsOf(summary) ==
  LET objs == Objects(attack_stix_content)
  IN  {Get(objs[k], "id", NoneStr) :
         k \in {k \in 1..Len(objs) : /\ Get(objs[k], "type", "") = "intrusion-set"
                                      /\ ActorSummary(objs[k]) = summary}}

\* C21 as claimed: the display number n typed at the prompt of a grouping
\* view selects the intrusion set that the summary of cell n was derived
\* from: its id is the actor id that the techniques are resolved for, also
\* where several intrusion sets have the same name.
C21_DrillDownSelectsDisplayed ==
  [][ (pc = "actor_prompt" /\ Selects(line', Len(actor_list)))
        => LET shown == ScanSummaries(screen.table.columns, Len(screen.table.rows),
                                      ViewKey(menu_choice))
               n == ParseInt(line').value
           IN  actor_id' \in OriginsOf(shown[n])
    ]_vars

\* C22: the pager runs only for an actor that was found and has techniques,
\* so with total_pages >= 1; a selection whose name resolves to no id, or
\* whose actor has no resolvable technique, reports that nothing was found,
\* raises nothing and returns to the main menu.
C22_NothingFoundSkipsPager ==
  /\ [](pc = "pager" => /\ total_pages >= 1
                        /\ techniques # <<>>
                        /\ actor_id \notin {NoneStr, <<>>})
  /\ [][ (pc = "actor_prompt" /\ Selects(line', Len(actor_list)))
           => /\ raised' = ""
              /\ IF actor_id' \in {NoneStr, <<>>}
                   THEN out' = <<"actor_not_found">> /\ pc' = "menu" /\ screen' = MenuScreen
                 ELSE IF techniques' = <<>>
                   THEN out' = <<"no_techniques">> /\ pc' = "menu" /\ screen' = MenuScreen
                 ELSE pc' = "pager" /\ out' = <<>>
       ]_vars

\* back at the main menu after the selection of an actor stored without an id
C22_Witness ==
  /\ pc = "menu"
  /\ out = <<"actor_not_found">>
  /\ selected_actor = <<"G","h","o","s","t">>
  /\ raised = ""

\* some line typed at the tool prompt of super.py leads to the panel
CanSelectTool ==
  ENABLED (\E typed \in SelectionLines : super_tool_select(typed) /\ pc' = "tool_nav")

\* some line typed below the panel leads to the main menu
CanLeaveTools ==
  ENABLED (\E typed \in NavLines : super_tool_nav(typed) /\ pc' = "menu")

CanExit == ENABLED (super_menu("Exit") /\ pc' = "done")

\* C23 as claimed: in the Tools view of super.py, whatever the bundle, the
\* prompt for a tool number can be left for the panel, the prompt below the
\* panel for the main menu, and the main menu by Exit: from every state of
\* the tools loop some finite sequence of inputs ends the session.
C23_ToolsLoopEscapable ==
  entry = "super" =>
    /\ pc = "tool_prompt" => CanSelectTool
    /\ pc = "tool_nav" => CanLeaveTools
    /\ pc = "menu" => CanExit

\* C24 as claimed: main never calls itself: however many tools are viewed
\* one after another in a session of any script, no step of the running
\* session puts a further frame of main on the call stack.
C24_CallDepthBounded ==
  [][ (pc # "start" /\ pc' \notin {"done", "crashed"}) => depth' = depth ]_vars

\* the entries joined by ", "
RECURSIVE CommaJoined(_)
CommaJoined(parts) ==
  IF parts = <<>> THEN <<>>
  ELSE IF Len(parts) = 1 THEN parts[1]
  ELSE parts[1] \o <<",", " ">> \o CommaJoined(Tail(parts))

PlatformsText(obj) ==
  IF "x_mitre_platforms" \in DOMAIN obj THEN CommaJoined(obj.x_mitre_platforms)
  ELSE <<"N","/","A">>

KillChainText(obj) ==
  IF "kill_chain_phases" \in DOMAIN obj
    THEN CommaJoined([i \in 1..Len(obj.kill_chain_phases) |->
                        obj.kill_chain_phases[i].phase_name])
  ELSE <<>>

\* the stored techniques that the relationships from the anchor to ids of
\* techniques resolve to, in scan order
ResolvedFor(anchor) ==
  LET ends == FarEnds(anchor, "source_ref", "target_ref", <<"a","t","t","a","c","k","-","p","a","t","t","e","r","n">>)
  IN  Concat([i \in 1..Len(ends) |-> StoredAs("attack-pattern", ends[i])])

\* C25: every technique resolved for an actor carries as platforms its
\* x_mitre_platforms joined by ", ", or "N/A" without the field, and as
\* kill_chain_phase the phase names of its kill_chain_phases joined by ", ",
\* or the empty string without the field; the panel of a tool lists the same
\* two strings for each of its techniques, the same as the actor flow has
\* written for the technique where it has resolved it before.
C25_PlatformsAndKillChain ==
  /\ \A i \in 1..Len(techniques) :
       /\ techniques[i].platforms = PlatformsText(techniques[i])
       /\ techniques[i].kill_chain_phase = KillChainText(techniques[i])
  /\ pc = "tool_nav" =>
       LET met == ResolvedFor(selected_tool_id)
           listed == panel.techniques
       IN  /\ SameBag([i \in 1..Len(listed) |->
                         <<listed[i].name, listed[i].platform, listed[i].kill_chain>>],
                      [i \in 1..Len(met) |->
                         <<met[i].name, PlatformsText(met[i]), KillChainText(met[i])>>])
           /\ \A o \in Range(met) : \A p \in Range(listed) :
                ("platforms" \in DOMAIN o /\ p.name = o.name)
                  => p.platform = o.platforms /\ p.kill_chain = o.kill_chain_phase

\* the panel of a tool after the page of an actor that uses the same two
\* techniques, one with platforms and phases, one without, the latter twice
C25_Witness ==
  /\ pc = "tool_nav"
  /\ Len(techniques) = 3
  /\ \E p \in Range(panel.techniques) : p.platform = <<"N","/","A">> /\ p.kill_chain = <<>>
  /\ \E p \in Range(panel.techniques) :
       p.platform = <<"W","i","n","d","o","w","s",","," ","L","i","n","u","x">> /\ p.kill_chain = <<"i","n","i","t","i","a","l","-","a","c","c","e","s","s",","," ","e","x","e","c","u","t","i","o","n">>
  /\ \A o \in Range(ResolvedFor(selected_tool_id)) : "platforms" \in DOMAIN o
====
